---- MODULE Spec2Model ----
(***************************************************************************)
(* Model of lib/layer_utils/generate_anchors.py (tf-faster-rcnn): the      *)
(* enumeration of anchor windows over aspect ratios and scales.            *)
(*                                                                         *)
(* Number representation.  Every coordinate and centre the code computes   *)
(* from an integer base_size, dyadic ratios and integer scales is a        *)
(* multiple of 1/2, so a coordinate or centre c is stored as the integer   *)
(* 2*c ("doubled units"); widths and heights are integers and are stored   *)
(* as they are.  A ratio is stored as the pair <<num, den>> of the         *)
(* fraction num/den.  In these ranges every float64 operation of the code  *)
(* is exact, and np.sqrt is correctly rounded, so exact arithmetic gives   *)
(* the values numpy gives.                                                 *)
(***************************************************************************)
EXTENDS Integers, Sequences, FiniteSets, TLC

VARIABLES
  op,            \* the function under call
  pc,            \* position inside the call
  base_size,     \* generate_anchors: argument
  ratios,        \* generate_anchors, _ratio_enum: argument (sequence of <<num, den>>)
  scales,        \* generate_anchors, _scale_enum: argument (sequence of integers)
  anchor,        \* the box argument of _whctrs/_ratio_enum/_scale_enum (base_anchor)
  ws, hs,        \* _mkanchors: width and height vectors
  x_ctr, y_ctr,  \* _mkanchors: centre (doubled units)
  ratio_anchors, \* generate_anchors: local
  i,             \* generate_anchors: index of the list comprehension (1-based)
  parts,         \* generate_anchors: the list handed to np.vstack
  anchors,       \* the returned table (doubled units)
  status         \* "running", "ok" (returned) or "ValueError" (raised)

vars == <<op, pc, base_size, ratios, scales, anchor, ws, hs, x_ctr, y_ctr,
          ratio_anchors, i, parts, anchors, status>>

\* ---------------------------------------------------------------- bounds
MaxBase == 9
MaxLen == 2
MaxCoord == 2

\* ------------------------------------------------------------- arithmetic
\* floor(sqrt(n)) for n >= 0
RECURSIVE ISqrtFrom(_, _)
ISqrtFrom(n, k) == IF (k + 1) * (k + 1) > n THEN k ELSE ISqrtFrom(n, k + 1)
ISqrt(n) == ISqrtFrom(n, 0)

\* a/b rounded with ties going up, a >= 0, b > 0
RoundHalfUp(a, b) == (2 * a + b) \div (2 * b)
\* np.round (rint: ties go to the even integer) of a/b, a >= 0, b > 0
Rint(a, b) ==
  LET q == a \div b
      r == a % b
  IN  IF 2 * r < b THEN q
      ELSE IF 2 * r > b THEN q + 1
      ELSE IF q % 2 = 0 THEN q ELSE q + 1

\* np.round(np.sqrt(p/q)), p >= 0, q > 0.  k = floor(2*sqrt(p/q)); the value
\* is a tie exactly when 2*sqrt(p/q) is the odd integer k.
RintSqrt(p, q) ==
  LET k == ISqrt((4 * p) \div q)
      m == k \div 2
  IN  IF k % 2 = 0 THEN m
      ELSE IF k * k * q = 4 * p THEN (IF m % 2 = 0 THEN m ELSE m + 1)
      ELSE m + 1

\* ---------------------------------------------------------------- helpers
\* _whctrs: <<w, h, x_ctr, y_ctr>> of a box (the centre in doubled units)
whctrs_ctr_plus_half(a) ==
  LET w == (a[3] - a[1]) \div 2 + 1
      h == (a[4] - a[2]) \div 2 + 1
  IN  <<w, h, a[1] + w, a[2] + h>>
whctrs_no_plus_one(a) ==
  LET w == (a[3] - a[1]) \div 2
      h == (a[4] - a[2]) \div 2
  IN  <<w, h, a[1] + (w - 1), a[2] + (h - 1)>>
_whctrs(a) ==
  LET w == (a[3] - a[1]) \div 2 + 1
      h == (a[4] - a[2]) \div 2 + 1
  IN  <<w, h, a[1] + (w - 1), a[2] + (h - 1)>>

\* np.hstack of four column vectors: the columns must have the same length
HstackOk(w, h) == Len(w) = Len(h)

\* _mkanchors: one row per (ws[k], hs[k]); raises when np.hstack does
mkanchors_zip(w, h, xc, yc) ==
  LET n == IF Len(w) < Len(h) THEN Len(w) ELSE Len(h)
  IN  [status |-> "ok",
       table |-> [k \in 1..n |->
                    <<xc - (w[k] - 1), yc - (h[k] - 1),
                      xc + (w[k] - 1), yc + (h[k] - 1)>>]]
_mkanchors(w, h, xc, yc) ==
  IF HstackOk(w, h)
  THEN [status |-> "ok",
        table |-> [k \in 1..Len(w) |->
                     <<xc - (w[k] - 1), yc - (h[k] - 1),
                       xc + (w[k] - 1), yc + (h[k] - 1)>>]]
  ELSE [status |-> "ValueError", table |-> <<>>]

\* _ratio_enum: lines 130-132, then _mkanchors
RatioW(size, r) == RintSqrt(size * r[2], r[1])
RatioH(w, r) == Rint(w * r[1], r[2])
_ratio_enum(a, rs) ==
  LET c == _whctrs(a)
      size == c[1] * c[2]
      w == [k \in 1..Len(rs) |-> RatioW(size, rs[k])]
      h == [k \in 1..Len(rs) |-> RatioH(w[k], rs[k])]
  IN  _mkanchors(w, h, c[3], c[4]).table

\* _scale_enum
_scale_enum(a, ss) ==
  LET c == _whctrs(a)
      w == [k \in 1..Len(ss) |-> c[1] * ss[k]]
      h == [k \in 1..Len(ss) |-> c[2] * ss[k]]
  IN  _mkanchors(w, h, c[3], c[4]).table

\* np.vstack of a non-empty list of tables
RECURSIVE vstack_reversed(_)
vstack_reversed(ts) ==
  IF ts = <<>> THEN <<>> ELSE vstack_reversed(Tail(ts)) \o Head(ts)
vstack_last(ts) == IF ts = <<>> THEN <<>> ELSE ts[Len(ts)]
RECURSIVE vstack(_)
vstack(ts) == IF ts = <<>> THEN <<>> ELSE Head(ts) \o vstack(Tail(ts))

\* base_anchor = np.array([1, 1, base_size, base_size]) - 1
base_anchor_matlab(b) == <<2 * 1, 2 * 1, 2 * b, 2 * b>>
base_anchor(b) == <<2 * (1 - 1), 2 * (1 - 1), 2 * (b - 1), 2 * (b - 1)>>

\* ----------------------------------------------------------------- inputs
RECURSIVE SeqsUpTo(_, _)
SeqsUpTo(S, n) ==
  IF n = 0 THEN {<<>>}
  ELSE LET prev == SeqsUpTo(S, n - 1)
       IN  prev \cup {Append(s, e) : s \in {t \in prev : Len(t) = n - 1}, e \in S}

\* ratios 0.5, 1, 2, 4 (exact in float64); scales: a negative one and two positive ones
RatioVals == {<<1, 2>>, <<1, 1>>, <<2, 1>>, <<4, 1>>}
ScaleVals == {-1, 1, 2}

DefaultBase == 16
DefaultRatios == <<(<<1, 2>>), (<<1, 1>>), (<<2, 1>>)>>
DefaultScales == <<8, 16, 32>>

GenInputs ==
  {<<b, r, s>> : b \in 0..MaxBase, r \in SeqsUpTo(RatioVals, MaxLen),
                 s \in SeqsUpTo(ScaleVals, MaxLen)}
  \cup {<<DefaultBase, DefaultRatios, DefaultScales>>}

\* integer boxes with x2 >= x1 and y2 >= y1, in doubled units
Coords == -1..MaxCoord
Box(b) == b[3] >= b[1] /\ b[4] >= b[2]
Boxes ==
  {b \in {<<2 * x1, 2 * y1, 2 * x2, 2 * y2>> :
             x1 \in Coords, y1 \in Coords, x2 \in Coords, y2 \in Coords} : Box(b)}
Widths == 0..(MaxCoord + 1)

\* ------------------------------------------------------------------- Init
Init ==
  /\ pc = "start" /\ status = "running"
  /\ ratio_anchors = <<>> /\ i = 0 /\ parts = <<>> /\ anchors = <<>>
  /\ \/ /\ op = "generate_anchors"
        /\ \E a \in GenInputs : base_size = a[1] /\ ratios = a[2] /\ scales = a[3]
        /\ anchor = <<0, 0, 0, 0>>
        /\ ws = <<>> /\ hs = <<>> /\ x_ctr = 0 /\ y_ctr = 0
     \/ /\ op = "_mkanchors"
        /\ ws \in SeqsUpTo(Widths, MaxLen)
        /\ hs \in SeqsUpTo(Widths, MaxLen)
        /\ x_ctr \in {0, 3} /\ y_ctr \in {0, 3}
        /\ base_size = 0 /\ ratios = <<>> /\ scales = <<>>
        /\ anchor = <<0, 0, 0, 0>>
     \/ /\ op \in {"_whctrs", "_scale_enum"}
        /\ anchor \in Boxes
        /\ scales \in IF op = "_scale_enum" THEN {<<s>> : s \in {1, 2}} ELSE {<<>>}
        /\ base_size = 0 /\ ratios = <<>>
        /\ ws = <<>> /\ hs = <<>> /\ x_ctr = 0 /\ y_ctr = 0

\* ---------------------------------------------------------------- actions
\* generate_anchors, line 50
BaseAnchor ==
  /\ op = "generate_anchors" /\ pc = "start"
  /\ anchor' = base_anchor(base_size)
  /\ pc' = "ratio"
  /\ UNCHANGED <<op, base_size, ratios, scales, ws, hs, x_ctr, y_ctr,
                 ratio_anchors, i, parts, anchors, status>>

\* generate_anchors, line 59
RatioEnum ==
  /\ op = "generate_anchors" /\ pc = "ratio"
  /\ ratio_anchors' = _ratio_enum(anchor, ratios)
  /\ i' = 1
  /\ pc' = "scale"
  /\ UNCHANGED <<op, base_size, ratios, scales, anchor, ws, hs, x_ctr, y_ctr,
                 parts, anchors, status>>

\* generate_anchors, lines 79-80: one iteration of the list comprehension
ScaleEnum ==
  /\ op = "generate_anchors" /\ pc = "scale"
  /\ i <= Len(ratio_anchors)
  /\ parts' = Append(parts, _scale_enum(ratio_anchors[i], scales))
  /\ i' = i + 1
  /\ UNCHANGED <<op, pc, base_size, ratios, scales, anchor, ws, hs, x_ctr, y_ctr,
                 ratio_anchors, anchors, status>>

\* generate_anchors, lines 79-81: np.vstack raises on an empty list
VStack ==
  /\ op = "generate_anchors" /\ pc = "scale"
  /\ i > Len(ratio_anchors)
  /\ IF parts = <<>>
     THEN status' = "ValueError" /\ anchors' = anchors
     ELSE status' = "ok" /\ anchors' = vstack(parts)
  /\ pc' = "done"
  /\ UNCHANGED <<op, base_size, ratios, scales, anchor, ws, hs, x_ctr, y_ctr,
                 ratio_anchors, i, parts>>

\* a call of _whctrs whose result is handed to _mkanchors
Whctrs ==
  /\ op = "_whctrs" /\ pc = "start"
  /\ LET c == _whctrs(anchor)
     IN  ws' = <<c[1]>> /\ hs' = <<c[2]>> /\ x_ctr' = c[3] /\ y_ctr' = c[4]
  /\ pc' = "mk"
  /\ UNCHANGED <<op, base_size, ratios, scales, anchor, ratio_anchors, i, parts,
                 anchors, status>>

\* a call of _mkanchors
MkAnchors ==
  /\ \/ op = "_mkanchors" /\ pc = "start"
     \/ op = "_whctrs" /\ pc = "mk"
  /\ LET r == _mkanchors(ws, hs, x_ctr, y_ctr)
     IN  status' = r.status /\ anchors' = r.table
  /\ pc' = "done"
  /\ UNCHANGED <<op, base_size, ratios, scales, anchor, ws, hs, x_ctr, y_ctr,
                 ratio_anchors, i, parts>>

\* a call of _scale_enum
ScaleEnumCall ==
  /\ op = "_scale_enum" /\ pc = "start"
  /\ anchors' = _scale_enum(anchor, scales)
  /\ status' = "ok"
  /\ pc' = "done"
  /\ UNCHANGED <<op, base_size, ratios, scales, anchor, ws, hs, x_ctr, y_ctr,
                 ratio_anchors, i, parts>>

Next ==
  \/ BaseAnchor
  \/ RatioEnum
  \/ ScaleEnum
  \/ VStack
  \/ Whctrs
  \/ MkAnchors
  \/ ScaleEnumCall

Spec == Init /\ [][Next]_vars

\* ----------------------------------------------------------- vocabulary
Done == op = "generate_anchors" /\ pc = "done"
Returned == Done /\ status = "ok"
IsDefaultCall ==
  base_size = DefaultBase /\ ratios = DefaultRatios /\ scales = DefaultScales
\* the validity condition of the specification: positive base_size, ratios, scales
ValidParams ==
  /\ base_size > 0
  /\ \A k \in 1..Len(ratios) : ratios[k][1] > 0 /\ ratios[k][2] > 0
  /\ \A k \in 1..Len(scales) : scales[k] > 0
\* a table given in pixel units, in the model's doubled units
Doubled(t) == [k \in 1..Len(t) |-> [j \in 1..4 |-> 2 * t[k][j]]]
RowW(row) == (row[3] - row[1]) \div 2 + 1
RowH(row) == (row[4] - row[2]) \div 2 + 1

\* Every box handed to _whctrs has corners an integer apart, so the halving
\* in _whctrs is exact.
ExactHalves ==
  /\ (anchor[3] - anchor[1]) % 2 = 0 /\ (anchor[4] - anchor[2]) % 2 = 0
  /\ \A k \in 1..Len(ratio_anchors) :
       /\ (ratio_anchors[k][3] - ratio_anchors[k][1]) % 2 = 0
       /\ (ratio_anchors[k][4] - ratio_anchors[k][2]) % 2 = 0

\* ------------------------------------------------------------------ C1
ReferenceTable ==
  << <<-84, -40, 99, 55>>, <<-176, -88, 191, 103>>, <<-360, -184, 375, 199>>,
     <<-56, -56, 71, 71>>, <<-120, -120, 135, 135>>, <<-248, -248, 263, 263>>,
     <<-36, -80, 51, 95>>, <<-80, -168, 95, 183>>, <<-168, -344, 183, 359>> >>

C2_RejectsInvalid ==
  (Done /\ ~ValidParams) => (status # "ok" /\ anchors = <<>>)

\* ------------------------------------------------------------------ C3
\* C3: positivity: for every valid input, every row (x1, y1, x2, y2) of the
\* returned table has x2 > x1 and y2 > y1.
C3_Positivity ==
  (Returned /\ ValidParams) =>
    \A k \in 1..Len(anchors) :
      anchors[k][3] > anchors[k][1] /\ anchors[k][4] > anchors[k][2]

\* ------------------------------------------------------------------ C4
\* C4: row order: the row at index ratio_index * num_scales + scale_index is
\* the base anchor re-shaped to ratios[ratio_index] and then scaled by
\* scales[scale_index] (outer loop over ratios, inner loop over scales).
C4_RowOrder ==
  Returned =>
    \A ri \in 1..Len(ratios) : \A si \in 1..Len(scales) :
      LET shaped == _ratio_enum(base_anchor(base_size), <<ratios[ri]>>)[1]
      IN  anchors[(ri - 1) * Len(scales) + si]
            = _scale_enum(shaped, <<scales[si]>>)[1]

C4_Witness ==
  /\ Returned /\ ValidParams /\ Len(ratios) >= 2 /\ Len(scales) >= 2
  /\ ratios[1] # ratios[2] /\ scales[1] # scales[2]
  /\ base_size > 1
  /\ anchors[2] # anchors[Len(scales) + 1]

C6_CenterConservation ==
  (op = "generate_anchors" /\ pc \in {"scale", "done"}) =>
    /\ \A k \in 1..Len(ratio_anchors) :
         /\ ratio_anchors[k][1] + ratio_anchors[k][3] = anchor[1] + anchor[3]
         /\ ratio_anchors[k][2] + ratio_anchors[k][4] = anchor[2] + anchor[4]
    /\ \A k \in 1..Len(parts) : \A j \in 1..Len(parts[k]) :
         /\ parts[k][j][1] + parts[k][j][3]
              = ratio_anchors[k][1] + ratio_anchors[k][3]
         /\ parts[k][j][2] + parts[k][j][4]
              = ratio_anchors[k][2] + ratio_anchors[k][4]
    /\ status = "ok" =>
         \A k \in 1..Len(anchors) :
           /\ anchors[k][1] + anchors[k][3] = 2 * (base_size - 1)
           /\ anchors[k][2] + anchors[k][4] = 2 * (base_size - 1)

C6_Witness ==
  /\ Returned /\ ValidParams /\ base_size > 1 /\ Len(anchors) >= 4
  /\ \E k \in 1..Len(anchors) : RowW(anchors[k]) # RowH(anchors[k])

\* ------------------------------------------------------------------ C7
MatlabTable ==
  << <<-83, -39, 100, 56>>, <<-175, -87, 192, 104>>, <<-359, -183, 376, 200>>,
     <<-55, -55, 72, 72>>, <<-119, -119, 136, 136>>, <<-247, -247, 264, 264>>,
     <<-35, -79, 52, 96>>, <<-79, -167, 96, 184>>, <<-167, -343, 184, 360>> >>

\* C7: as the header comment states, generate_anchors with the default
\* parameters returns the anchors of the matlab implementation.
C7_MatlabAnchors ==
  (Done /\ IsDefaultCall) => (status = "ok" /\ anchors = Doubled(MatlabTable))

\* ------------------------------------------------------------------ C8
\* n is sqrt(p/q) rounded to the nearest integer, p >= 0, q > 0
NearestToSqrt(n, p, q) ==
  /\ n >= 0
  /\ (n = 0 \/ (2 * n - 1) * (2 * n - 1) * q <= 4 * p)
  /\ 4 * p <= (2 * n + 1) * (2 * n + 1) * q
SqrtTie(n, p, q) ==
  \/ n > 0 /\ (2 * n - 1) * (2 * n - 1) * q = 4 * p
  \/ 4 * p = (2 * n + 1) * (2 * n + 1) * q
\* n is a/b rounded to the nearest integer, a >= 0, b > 0
NearestTo(n, a, b) == 2 * a - b <= 2 * n * b /\ 2 * n * b <= 2 * a + b
Tie(n, a, b) == 2 * n * b = 2 * a - b \/ 2 * n * b = 2 * a + b

\* C8 as stated: new_w = round(sqrt(w*h / r)) and new_h = round(new_w * r)
\* where a value with fractional part exactly 0.5 rounds up (away from zero).
C8_RoundHalfAway ==
  (op = "generate_anchors" /\ pc \in {"scale", "done"}) =>
    \A k \in 1..Len(ratio_anchors) :
      LET size == base_size * base_size
          num == ratios[k][1]
          den == ratios[k][2]
          w == RowW(ratio_anchors[k])
          h == RowH(ratio_anchors[k])
      IN  /\ NearestToSqrt(w, size * den, num)
          /\ 4 * size * den # (2 * w + 1) * (2 * w + 1) * num
          /\ NearestTo(h, w * num, den)
          /\ 2 * h * den # 2 * w * num - den

\* C8 (amended): new_w = round(sqrt(w*h / r)) and new_h = round(new_w * r)
\* where round is np.round, which rounds a value with fractional part exactly
\* 0.5 to the even neighbour: for base_size = 9 and ratio 0.5 the ratio box
\* has width 13 and height round(6.5) = 6.
C8_RoundHalfEven ==
  (op = "generate_anchors" /\ pc \in {"scale", "done"}) =>
    /\ \A k \in 1..Len(ratio_anchors) :
         LET size == base_size * base_size
             num == ratios[k][1]
             den == ratios[k][2]
             w == RowW(ratio_anchors[k])
             h == RowH(ratio_anchors[k])
         IN  /\ NearestToSqrt(w, size * den, num)
             /\ SqrtTie(w, size * den, num) => w % 2 = 0
             /\ NearestTo(h, w * num, den)
             /\ Tie(h, w * num, den) => h % 2 = 0
    /\ (base_size = 9 /\ ratios # <<>> /\ ratios[1] = <<1, 2>>) =>
         (RowW(ratio_anchors[1]) = 13 /\ RowH(ratio_anchors[1]) = 6)

C8_Witness ==
  /\ Done /\ base_size = 9 /\ ratios # <<>> /\ ratios[1] = <<1, 2>>
  /\ RowW(ratio_anchors[1]) = 13 /\ RowH(ratio_anchors[1]) = 6

\* ------------------------------------------------------------------ C9
\* C9: _mkanchors called with width and height vectors of different lengths
\* fails with a shape error and returns no table; with equal lengths it
\* returns one row per (ws[k], hs[k]) pair in input order.
C9_ShapeMismatch ==
  (op = "_mkanchors" /\ pc = "done") =>
    IF Len(ws) # Len(hs)
    THEN status = "ValueError" /\ anchors = <<>>
    ELSE /\ status = "ok"
         /\ Len(anchors) = Len(ws)
         /\ \A k \in 1..Len(ws) :
              /\ anchors[k][3] - anchors[k][1] = 2 * (ws[k] - 1)
              /\ anchors[k][4] - anchors[k][2] = 2 * (hs[k] - 1)
              /\ anchors[k][1] + anchors[k][3] = 2 * x_ctr
              /\ anchors[k][2] + anchors[k][4] = 2 * y_ctr

C9_Witness ==
  op = "_mkanchors" /\ pc = "done" /\ Len(ws) = 2 /\ Len(hs) = 1
  /\ status = "ValueError"

\* ----------------------------------------------------------------- C10
\* C10: round trip: for a box with x2 >= x1 and y2 >= y1, _mkanchors applied
\* to the result of _whctrs gives the box back; _scale_enum(box, [1]) is
\* [box]; and generate_anchors(base_size, [1], [1]) is
\* [(0, 0, base_size - 1, base_size - 1)] for every positive base_size.
C10_RoundTrip ==
  /\ (op = "_whctrs" /\ pc = "done") => (status = "ok" /\ anchors = <<anchor>>)
  /\ (op = "_scale_enum" /\ pc = "done" /\ scales = <<1>>) =>
       (status = "ok" /\ anchors = <<anchor>>)
  /\ (Done /\ base_size > 0 /\ ratios = << <<1, 1>> >> /\ scales = <<1>>) =>
       /\ status = "ok"
       /\ anchors = << <<0, 0, 2 * (base_size - 1), 2 * (base_size - 1)>> >>

C10_Witness ==
  /\ op = "_whctrs" /\ pc = "done"
  /\ anchor[3] > anchor[1] /\ anchor[4] > anchor[2] /\ anchor[1] # anchor[2]
  /\ anchors = <<anchor>>

====
